---- MODULE Spec2Model ----
(***************************************************************************)
(* A model of generate_release_notes.py: the script walks the merged pull  *)
(* requests of a milestone in two repositories (napari and docs), sorts    *)
(* them into changelog sections by label, collects the contributors, and   *)
(* prints the release notes to standard output or to a file.               *)
(*                                                                         *)
(* Python strings are sequences of one-character strings, so that          *)
(* str.lower(), string comparison, f-string formatting and the regular     *)
(* expression @([\w-]+) are computed character by character.               *)
(***************************************************************************)
EXTENDS Integers, Sequences, FiniteSets, TLC

(***************************************************************************)
(* Characters and strings                                                  *)
(***************************************************************************)
NL == "\n"
\* U+0060, which a TLA+ string cannot hold; it only keeps its place in ASCII
BACKTICK == "U+0060"

\* The printable ASCII characters in code-point order, 32 (space) to 126 (~).
ASCII ==
    << " ", "!", "\"", "#", "$", "%", "&", "'", "(", ")", "*", "+", ",", "-", ".", "/", "0",
       "1", "2", "3", "4", "5", "6", "7", "8", "9", ":", ";", "<", "=", ">", "?", "@", "A",
       "B", "C", "D", "E", "F", "G", "H", "I", "J", "K", "L", "M", "N", "O", "P", "Q", "R",
       "S", "T", "U", "V", "W", "X", "Y", "Z", "[", "\\", "]", "^", "_", BACKTICK, "a", "b",
       "c", "d", "e", "f", "g", "h", "i", "j", "k", "l", "m", "n", "o", "p", "q", "r", "s",
       "t", "u", "v", "w", "x", "y", "z", "{", "|", "}", "~" >>

Chars == {ASCII[i] : i \in 1..Len(ASCII)} \cup {NL}

\* ord(c)
Ord == [c \in Chars |-> IF c = NL THEN 10 ELSE 31 + (CHOOSE i \in 1..Len(ASCII) : ASCII[i] = c)]

\* c.lower() for one character
LowerChar == [c \in Chars |-> IF Ord[c] >= 65 /\ Ord[c] <= 90 THEN ASCII[Ord[c] + 32 - 31] ELSE c]

\* s.lower()
Lower(s) == [i \in 1..Len(s) |-> LowerChar[s[i]]]

\* s < t for Python strings: lexicographic on code points, a proper prefix first
StrLess(s, t) ==
    \E i \in 1..Len(t) :
        /\ \A j \in 1..(i - 1) : j <= Len(s) /\ s[j] = t[j]
        /\ \/ i = Len(s) + 1
           \/ i <= Len(s) /\ Ord[s[i]] < Ord[t[i]]

\* the regular-expression class [\w-] on ASCII text
IsLoginChar(c) ==
    \/ Ord[c] >= 48 /\ Ord[c] <= 57
    \/ Ord[c] >= 65 /\ Ord[c] <= 90
    \/ Ord[c] >= 97 /\ Ord[c] <= 122
    \/ c = "_"
    \/ c = "-"

\* user_name_pattern.findall(text) as a set: after every "@", the longest
\* non-empty run of [\w-] characters.  A match never contains "@", so the
\* matches of the left-to-right scan are exactly these runs.
Findall(text) ==
    LET RunEnd(i) == CHOOSE j \in i..Len(text) :
                        /\ \A k \in (i + 1)..j : IsLoginChar(text[k])
                        /\ j = Len(text) \/ ~IsLoginChar(text[j + 1])
    IN  {SubSeq(text, i + 1, RunEnd(i)) :
            i \in {k \in 1..Len(text) : text[k] = "@" /\ RunEnd(k) > k}}

\* f"{n}" for a non-negative integer
RECURSIVE IntStr(_)
IntStr(n) == IF n < 10 THEN <<ASCII[n + 17]>> ELSE IntStr(n \div 10) \o <<ASCII[(n % 10) + 17]>>

\* s.replace(old, new) for single characters
Replace(s, old, new) == [i \in 1..Len(s) |-> IF s[i] = old THEN new ELSE s[i]]

\* None, as a value no string is equal to
None == <<"None">>

(***************************************************************************)
(* Python dicts: insertion-ordered sequences of key/value pairs            *)
(***************************************************************************)
DictHas(d, k) == \E i \in 1..Len(d) : d[i].key = k
DictGet(d, k) == d[CHOOSE i \in 1..Len(d) : d[i].key = k].value
DictKeys(d) == {d[i].key : i \in 1..Len(d)}
\* d[k] = v: an existing key keeps its position
DictSet(d, k, v) ==
    IF DictHas(d, k)
    THEN [i \in 1..Len(d) |-> IF d[i].key = k THEN [key |-> k, value |-> v] ELSE d[i]]
    ELSE Append(d, [key |-> k, value |-> v])

(***************************************************************************)
(* Bounds of the model                                                     *)
(***************************************************************************)
\* pull requests the two milestone queries yield together
MaxPulls == 2
\* pull request numbers are 1..MaxNumber
MaxNumber == 2

(***************************************************************************)
(* String constants of the script                                          *)
(***************************************************************************)
Sec_Highlights ==
    << "H", "i", "g", "h", "l", "i", "g", "h", "t", "s" >>
Sec_NewFeatures ==
    << "N", "e", "w", " ", "F", "e", "a", "t", "u", "r", "e", "s" >>
Sec_Improvements ==
    << "I", "m", "p", "r", "o", "v", "e", "m", "e", "n", "t", "s" >>
Sec_Performance ==
    << "P", "e", "r", "f", "o", "r", "m", "a", "n", "c", "e" >>
Sec_BugFixes ==
    << "B", "u", "g", " ", "F", "i", "x", "e", "s" >>
Sec_APIChanges ==
    << "A", "P", "I", " ", "C", "h", "a", "n", "g", "e", "s" >>
Sec_Deprecations ==
    << "D", "e", "p", "r", "e", "c", "a", "t", "i", "o", "n", "s" >>
Sec_BuildTools ==
    << "B", "u", "i", "l", "d", " ", "T", "o", "o", "l", "s" >>
Sec_Documentation ==
    << "D", "o", "c", "u", "m", "e", "n", "t", "a", "t", "i", "o", "n" >>
Sec_Other ==
    << "O", "t", "h", "e", "r", " ", "P", "u", "l", "l", " ", "R", "e", "q", "u", "e", "s",
       "t", "s" >>

Key_bug ==
    << "b", "u", "g" >>
Key_bugfix ==
    << "b", "u", "g", "f", "i", "x" >>
Key_feature ==
    << "f", "e", "a", "t", "u", "r", "e" >>
Key_api ==
    << "a", "p", "i" >>
Key_highlight ==
    << "h", "i", "g", "h", "l", "i", "g", "h", "t" >>
Key_performance ==
    << "p", "e", "r", "f", "o", "r", "m", "a", "n", "c", "e" >>
Key_enhancement ==
    << "e", "n", "h", "a", "n", "c", "e", "m", "e", "n", "t" >>
Key_deprecation ==
    << "d", "e", "p", "r", "e", "c", "a", "t", "i", "o", "n" >>
Key_dependencies ==
    << "d", "e", "p", "e", "n", "d", "e", "n", "c", "i", "e", "s" >>
Key_documentation ==
    << "d", "o", "c", "u", "m", "e", "n", "t", "a", "t", "i", "o", "n" >>
Key_maintenance ==
    << "m", "a", "i", "n", "t", "e", "n", "a", "n", "c", "e" >>

Repo_napari ==
    << "n", "a", "p", "a", "r", "i" >>
Repo_docs ==
    << "d", "o", "c", "s" >>

\* release_utils: the host and the owner and repository of the project
GH ==
    << "g", "i", "t", "h", "u", "b", ".", "c", "o", "m" >>
GH_USER ==
    << "n", "a", "p", "a", "r", "i" >>
GH_REPO ==
    << "n", "a", "p", "a", "r", "i" >>

Txt_Title ==
    << "#", " ", "n", "a", "p", "a", "r", "i", " " >>
Txt_Intro1 ==
    << NL, "W", "e", "'", "r", "e", " ", "h", "a", "p", "p", "y", " ", "t", "o", " ", "a", "n",
       "n", "o", "u", "n", "c", "e", " ", "t", "h", "e", " ", "r", "e", "l", "e", "a", "s",
       "e", " ", "o", "f", " ", "n", "a", "p", "a", "r", "i", " " >>
Txt_Intro2 ==
    << "!", NL, "n", "a", "p", "a", "r", "i", " ", "i", "s", " ", "a", " ", "f", "a", "s", "t",
       ",", " ", "i", "n", "t", "e", "r", "a", "c", "t", "i", "v", "e", ",", " ", "m", "u",
       "l", "t", "i", "-", "d", "i", "m", "e", "n", "s", "i", "o", "n", "a", "l", " ", "i",
       "m", "a", "g", "e", " ", "v", "i", "e", "w", "e", "r", " ", "f", "o", "r", " ", "P",
       "y", "t", "h", "o", "n", ".", NL, "I", "t", "'", "s", " ", "d", "e", "s", "i", "g", "n",
       "e", "d", " ", "f", "o", "r", " ", "b", "r", "o", "w", "s", "i", "n", "g", ",", " ",
       "a", "n", "n", "o", "t", "a", "t", "i", "n", "g", ",", " ", "a", "n", "d", " ", "a",
       "n", "a", "l", "y", "z", "i", "n", "g", " ", "l", "a", "r", "g", "e", " ", "m", "u",
       "l", "t", "i", "-", "d", "i", "m", "e", "n", "s", "i", "o", "n", "a", "l", NL, "i", "m",
       "a", "g", "e", "s", ".", " ", "I", "t", "'", "s", " ", "b", "u", "i", "l", "t", " ",
       "o", "n", " ", "t", "o", "p", " ", "o", "f", " ", "Q", "t", " ", "(", "f", "o", "r",
       " ", "t", "h", "e", " ", "G", "U", "I", ")", ",", " ", "v", "i", "s", "p", "y", " ",
       "(", "f", "o", "r", " ", "p", "e", "r", "f", "o", "r", "m", "a", "n", "t", " ", "G",
       "P", "U", "-", "b", "a", "s", "e", "d", NL, "r", "e", "n", "d", "e", "r", "i", "n", "g",
       ")", ",", " ", "a", "n", "d", " ", "t", "h", "e", " ", "s", "c", "i", "e", "n", "t",
       "i", "f", "i", "c", " ", "P", "y", "t", "h", "o", "n", " ", "s", "t", "a", "c", "k",
       " ", "(", "n", "u", "m", "p", "y", ",", " ", "s", "c", "i", "p", "y", ")", ".", NL >>
Txt_Website ==
    << NL, "F", "o", "r", " ", "m", "o", "r", "e", " ", "i", "n", "f", "o", "r", "m", "a", "t",
       "i", "o", "n", ",", " ", "e", "x", "a", "m", "p", "l", "e", "s", ",", " ", "a", "n",
       "d", " ", "d", "o", "c", "u", "m", "e", "n", "t", "a", "t", "i", "o", "n", ",", " ",
       "p", "l", "e", "a", "s", "e", " ", "v", "i", "s", "i", "t", " ", "o", "u", "r", " ",
       "w", "e", "b", "s", "i", "t", "e", ":", NL, "h", "t", "t", "p", "s", ":", "/", "/", "g",
       "i", "t", "h", "u", "b", ".", "c", "o", "m", "/", "n", "a", "p", "a", "r", "i", "/",
       "n", "a", "p", "a", "r", "i", NL >>
Txt_H2 ==
    << "#", "#", " " >>
Txt_Dash ==
    << "-", " " >>
Txt_PullOpen ==
    << " ", "(", "[", "n", "a", "p", "a", "r", "i", "/" >>
Txt_Hash ==
    << "/", "#" >>
Txt_LinkOpen ==
    << "]", "(", "h", "t", "t", "p", "s", ":", "/", "/" >>
Txt_Slash ==
    << "/" >>
Txt_PullPath ==
    << "/", "p", "u", "l", "l", "/" >>
Txt_PullClose ==
    << ")", ")" >>
Txt_Space ==
    << " " >>
Txt_Added ==
    << " ", "a", "d", "d", "e", "d", " ", "t", "o", " ", "t", "h", "i", "s", " ", "r", "e",
       "l", "e", "a", "s", "e", " ", "(", "a", "l", "p", "h", "a", "b", "e", "t", "i", "c",
       "a", "l", ")" >>
Txt_Https ==
    << "h", "t", "t", "p", "s", ":", "/", "/" >>
Txt_Commits ==
    << "/", "c", "o", "m", "m", "i", "t", "s", "?", "a", "u", "t", "h", "o", "r", "=" >>
Txt_DashBracket ==
    << "-", " ", "[" >>
Txt_LinkMid ==
    << "]", "(" >>
Txt_At ==
    << ")", " ", "-", " ", "@" >>
Txt_NewContributors ==
    << "#", "#", " ", "N", "e", "w", " ", "C", "o", "n", "t", "r", "i", "b", "u", "t", "o",
       "r", "s" >>
Txt_ThereAre ==
    << "T", "h", "e", "r", "e", " ", "a", "r", "e", " " >>
Txt_NewFor ==
    << " ", "n", "e", "w", " ", "c", "o", "n", "t", "r", "i", "b", "u", "t", "o", "r", "s",
       " ", "f", "o", "r", " ", "t", "h", "i", "s", " ", "r", "e", "l", "e", "a", "s", "e",
       ":" >>
Txt_Release ==
    << "r", "e", "l", "e", "a", "s", "e", "_" >>
Txt_Md ==
    << ".", "m", "d" >>

(***************************************************************************)
(* Inputs: what the GitHub API, the command line and the target directory  *)
(* can hold                                                                *)
(***************************************************************************)
Login_a ==
    << "a" >>
Login_b ==
    << "b" >>
Login_bot ==
    << "c", "i", "-", "b", "o", "t" >>
Name_bob ==
    << "b", "o", "b" >>
Name_Bea ==
    << "B", "e", "a" >>
Name_Alice ==
    << "A", "l", "i", "c", "e" >>

\* commit.author, commit.committer or review.user that is None
NoUser == [login |-> None, name |-> None]
\* NamedUser objects: the same login can come back with and without a name
User_a_bob == [login |-> Login_a, name |-> Name_bob]
User_a_anon == [login |-> Login_a, name |-> None]
User_b == [login |-> Login_b, name |-> Name_Bea]
User_bot == [login |-> Login_bot, name |-> None]
NamedUsers == {User_a_bob, User_a_anon, User_b, User_bot}

\* release_utils.BOT_LIST
BOT_LIST == {Login_bot}

\* name_corrections.yaml, as loaded into correction_dict
correction_dict == <<[key |-> Login_b, value |-> Name_Alice]>>

Title_Fix ==
    << "F", "i", "x" >>
Title_Mention ==
    << "B", "y", " ", "@", "x" >>
Titles == {Title_Fix, Title_Mention}

Label_Bug ==
    << "B", "u", "g" >>
Label_Maintenance ==
    << "M", "a", "i", "n", "t", "e", "n", "a", "n", "c", "e" >>
LabelSets == {{}, {Label_Bug, Key_feature}, {Key_documentation}, {Label_Maintenance, Key_bug}}

\* the merge commits repo.get_commit can return
Commits ==
    { [author |-> NoUser, committer |-> NoUser],
      [author |-> User_a_bob, committer |-> User_bot],
      [author |-> User_b, committer |-> NoUser],
      [author |-> User_bot, committer |-> User_bot] }

\* the review lists pull.get_reviews() can yield
ReviewLists ==
    { <<>>, <<NoUser>>, <<User_bot>>, <<User_a_anon>>, <<User_b, User_a_anon>> }

\* A plain pull request of each repository.  The queries yield pull requests
\* that differ from the plain one in at most one of these fields.
PlainMain ==
    [title |-> Title_Fix, labels |-> {}, merged |-> TRUE,
     commit |-> [author |-> User_a_bob, committer |-> User_bot], reviews |-> <<>>]
PlainDocs ==
    [title |-> Title_Fix, labels |-> {}, merged |-> TRUE, issue_user |-> User_a_anon,
     reviews |-> <<>>]
Near(p, plain) == Cardinality({f \in DOMAIN plain : p[f] # plain[f]}) <= 1

\* the pull requests iter_pull_request can yield for the napari repository
MainPulls ==
    {p \in [number : 1..MaxNumber, title : Titles, labels : LabelSets, merged : BOOLEAN,
            commit : Commits, reviews : ReviewLists] : Near(p, PlainMain)}

\* the pull requests iter_pull_request can yield for the docs repository
DocsPulls ==
    {p \in [number : 1..MaxNumber, title : Titles, labels : LabelSets, merged : BOOLEAN,
            issue_user : NamedUsers, reviews : ReviewLists] : Near(p, PlainDocs)}

Milestone ==
    << "1", ".", "0" >>

File_prior ==
    << "r", "e", "l", "e", "a", "s", "e", "_", "0", "_", "9", ".", "m", "d" >>
File_bare ==
    << "r", "e", "l", "e", "a", "s", "e", "_", "0", "_", "8", ".", "m", "d" >>
File_same ==
    << "r", "e", "l", "e", "a", "s", "e", "_", "1", "_", "0", ".", "m", "d" >>
File_notes ==
    << "n", "o", "t", "e", "s", ".", "m", "d" >>
Text_prior ==
    << "-", " ", "[", "b", "o", "b", "]", "(", "l", ")", " ", "-", " ", "@", "a", NL >>
Text_bare ==
    << "#", " ", "n", "a", "p", "a", "r", "i", " ", "0", ".", "8", NL >>
Text_stale ==
    << "-", " ", "[", "A", "l", "i", "c", "e", "]", "(", "l", ")", " ", "-", " ", "@", "b",
       NL >>

\* what the target directory can hold before the run
Directories ==
    { {[name |-> File_prior, text |-> Text_prior]},
      {[name |-> File_bare, text |-> Text_bare]},
      {[name |-> File_same, text |-> Text_stale], [name |-> File_notes, text |-> Text_stale]} }

(***************************************************************************)
(* State                                                                   *)
(***************************************************************************)
VARIABLES
    args,                \* the parsed command line
    users,               \* login -> display name
    authors, committers, docs_authors, docs_committers, reviewers, docs_reviewers,
    highlights,          \* section -> (pull number -> {summary, repo})
    other_pull_requests, \* pull number -> {summary, repo}
    pull,                \* the loop variable of the two pull-request loops
    yielded,             \* the pull requests each milestone query has yielded so far
    old_contributors,
    directory,           \* the files of the target directory
    file_handle,         \* "closed", "stdout" or "file"
    out,                 \* the print calls made on file_handle, in order
    pc                   \* "main", "docs", "report", "done" or "failed"

vars ==
    << args, users, authors, committers, docs_authors, docs_committers, reviewers,
       docs_reviewers, highlights, other_pull_requests, pull, yielded, old_contributors,
       directory, file_handle, out, pc >>

NoPull == [number |-> 0, title |-> <<>>, labels |-> {}, merged |-> FALSE]

label_to_section ==
    << [key |-> Key_bug, value |-> Sec_BugFixes],
       [key |-> Key_bugfix, value |-> Sec_BugFixes],
       [key |-> Key_feature, value |-> Sec_NewFeatures],
       [key |-> Key_api, value |-> Sec_APIChanges],
       [key |-> Key_highlight, value |-> Sec_Highlights],
       [key |-> Key_performance, value |-> Sec_Performance],
       [key |-> Key_enhancement, value |-> Sec_Improvements],
       [key |-> Key_deprecation, value |-> Sec_Deprecations],
       [key |-> Key_dependencies, value |-> Sec_BuildTools],
       [key |-> Key_documentation, value |-> Sec_Documentation] >>

EmptyHighlights ==
    << [key |-> Sec_Highlights, value |-> <<>>],
       [key |-> Sec_NewFeatures, value |-> <<>>],
       [key |-> Sec_Improvements, value |-> <<>>],
       [key |-> Sec_Performance, value |-> <<>>],
       [key |-> Sec_BugFixes, value |-> <<>>],
       [key |-> Sec_APIChanges, value |-> <<>>],
       [key |-> Sec_Deprecations, value |-> <<>>],
       [key |-> Sec_BuildTools, value |-> <<>>],
       [key |-> Sec_Documentation, value |-> <<>>] >>

Init ==
    /\ args \in [milestone : {Milestone}, target_directory : {"None", "dir"}]
    /\ users = <<>>
    /\ authors = {}
    /\ committers = {}
    /\ docs_authors = {}
    /\ docs_committers = {}
    /\ reviewers = {}
    /\ docs_reviewers = {}
    /\ highlights = EmptyHighlights
    /\ other_pull_requests = <<>>
    /\ pull = NoPull
    /\ yielded = [napari |-> {}, docs |-> {}]
    /\ old_contributors = {}
    /\ directory = {}
    /\ file_handle = "closed"
    /\ out = <<>>
    /\ pc = "main"

(***************************************************************************)
(* The two pull-request loops                                              *)
(***************************************************************************)
\* add_to_users without its early return: a known login is resolved again
add_to_users_always(us, new_user) ==
    IF DictHas(correction_dict, new_user.login)
    THEN DictSet(us, new_user.login, DictGet(correction_dict, new_user.login))
    ELSE IF new_user.name = None
         THEN DictSet(us, new_user.login, new_user.login)
         ELSE DictSet(us, new_user.login, new_user.name)

\* add_to_users(users, new_user), as the users it leaves
add_to_users(us, new_user) ==
    IF DictHas(us, new_user.login)
    THEN us
    ELSE IF DictHas(correction_dict, new_user.login)
         THEN DictSet(us, new_user.login, DictGet(correction_dict, new_user.login))
         ELSE IF new_user.name = None
              THEN DictSet(us, new_user.login, new_user.login)
              ELSE DictSet(us, new_user.login, new_user.name)

\* add_to_users for a user that may be None
AddIfUser(us, user) == IF user # NoUser THEN add_to_users(us, user) ELSE us

\* the logins of the users of `list` that are not None
Logins(list) == {list[i].login : i \in {j \in 1..Len(list) : list[j] # NoUser}}

\* for review in pull.get_reviews(): add_to_users(users, review.user)
RECURSIVE AddReviewers(_, _, _)
AddReviewers(us, reviews, i) ==
    IF i > Len(reviews)
    THEN us
    ELSE AddReviewers(AddIfUser(us, reviews[i]), reviews, i + 1)

\* the label names without lower()
LabelNames_as_given(labels) == labels

\* {label.name.lower() for label in pull.labels}
LabelNames(labels) == {Lower(l) : l \in labels}

\* highlights[section][number] = entry
SetEntry(h, section, number, entry) ==
    DictSet(h, section, DictSet(DictGet(h, section), number, entry))

\* for label_name, section in label_to_section.items(): ..., from its i-th item on
RECURSIVE AssignSections(_, _, _, _, _)
AssignSections(h, i, pr_lables, number, entry) ==
    IF i > Len(label_to_section)
    THEN h
    ELSE AssignSections(
            IF label_to_section[i].key \in pr_lables
            THEN SetEntry(h, label_to_section[i].value, number, entry)
            ELSE h,
            i + 1, pr_lables, number, entry)

\* the flag assigned_to_section after that loop
AssignedToSection(pr_lables) ==
    \E i \in 1..Len(label_to_section) : label_to_section[i].key \in pr_lables

\* the assertion left out
AssertMerged_skipped(p) == TRUE

\* assert pull.merged
AssertMerged(p) == p.merged

\* the numbers of the pull requests a query has yielded
Numbers(pulls) == {q.number : q \in pulls}

PullOf(p) == [number |-> p.number, title |-> p.title, labels |-> p.labels, merged |-> p.merged]

\* one iteration of the loop over the napari pull requests
MainPull(p) ==
    /\ pc = "main"
    /\ Cardinality(yielded.napari) + Cardinality(yielded.docs) < MaxPulls
    /\ p.number \notin Numbers(yielded.napari)
    /\ yielded' = [yielded EXCEPT !.napari = @ \cup {PullOf(p)}]
    /\ pull' = PullOf(p)
    /\ IF ~AssertMerged(p)
       THEN /\ pc' = "failed"
            /\ UNCHANGED << users, authors, committers, reviewers, highlights,
                            other_pull_requests >>
       ELSE LET entry == [summary |-> p.title, repo |-> Repo_napari]
                pr_lables == LabelNames(p.labels)
                users1 == AddIfUser(users, p.commit.committer)
                users2 == AddIfUser(users1, p.commit.author)
            IN  /\ pc' = "main"
                /\ users' = AddReviewers(users2, p.reviews, 1)
                /\ committers' = committers \cup Logins(<<p.commit.committer>>)
                /\ authors' = authors \cup Logins(<<p.commit.author>>)
                /\ reviewers' = reviewers \cup Logins(p.reviews)
                /\ highlights' = AssignSections(highlights, 1, pr_lables, p.number, entry)
                /\ other_pull_requests' =
                        IF ~AssignedToSection(pr_lables)
                        THEN DictSet(other_pull_requests, p.number, entry)
                        ELSE other_pull_requests
    /\ UNCHANGED << args, docs_authors, docs_committers, docs_reviewers, old_contributors,
                    directory, file_handle, out >>

\* the napari query is exhausted
MainEnd ==
    /\ pc = "main"
    /\ pc' = "docs"
    /\ UNCHANGED << args, users, authors, committers, docs_authors, docs_committers,
                    reviewers, docs_reviewers, highlights, other_pull_requests, pull,
                    yielded, old_contributors, directory, file_handle, out >>

\* one iteration of the loop over the docs pull requests
DocsPull(p) ==
    /\ pc = "docs"
    /\ Cardinality(yielded.napari) + Cardinality(yielded.docs) < MaxPulls
    /\ p.number \notin Numbers(yielded.docs)
    /\ yielded' = [yielded EXCEPT !.docs = @ \cup {PullOf(p)}]
    /\ pull' = PullOf(p)
    /\ IF ~AssertMerged(p)
       THEN /\ pc' = "failed"
            /\ UNCHANGED << users, docs_authors, docs_reviewers, highlights,
                            other_pull_requests >>
       ELSE LET entry == [summary |-> p.title, repo |-> Repo_docs]
                pr_lables == LabelNames(p.labels)
            IN  /\ pc' = "docs"
                /\ users' = AddReviewers(add_to_users(users, p.issue_user), p.reviews, 1)
                /\ docs_authors' = docs_authors \cup {p.issue_user.login}
                /\ docs_reviewers' = docs_reviewers \cup Logins(p.reviews)
                /\ IF Key_maintenance \in pr_lables
                   THEN /\ other_pull_requests' =
                                DictSet(other_pull_requests, p.number, entry)
                        /\ UNCHANGED highlights
                   ELSE /\ highlights' =
                                SetEntry(highlights, Sec_Documentation, p.number, entry)
                        /\ UNCHANGED other_pull_requests
    /\ UNCHANGED << args, authors, committers, docs_committers, reviewers, old_contributors,
                    directory, file_handle, out >>

\* the docs query is exhausted: the "Other Pull Requests" section is added and the
\* bots are removed
DocsEnd ==
    /\ pc = "docs"
    /\ pc' = "report"
    /\ highlights' = DictSet(highlights, Sec_Other, other_pull_requests)
    /\ committers' = committers \ BOT_LIST
    /\ authors' = authors \ BOT_LIST
    /\ docs_committers' = docs_committers \ BOT_LIST
    /\ docs_authors' = docs_authors \ BOT_LIST
    /\ UNCHANGED << args, users, reviewers, docs_reviewers, other_pull_requests, pull,
                    yielded, old_contributors, directory, file_handle, out >>

(***************************************************************************)
(* The output target and the prior reports                                 *)
(***************************************************************************)
\* f"release_{args.milestone.replace('.', '_')}.md"
res_file_name == Txt_Release \o Replace(args.milestone, ".", "_") \o Txt_Md

\* whether a file name matches the glob release_*.md
GlobMatch(name) ==
    /\ Len(name) >= Len(Txt_Release) + Len(Txt_Md)
    /\ SubSeq(name, 1, Len(Txt_Release)) = Txt_Release
    /\ SubSeq(name, Len(name) - Len(Txt_Md) + 1, Len(name)) = Txt_Md

\* the files the scan of the target directory reads
PriorReports(dir) == {f \in dir : GlobMatch(f.name) /\ f.name # res_file_name}

\* what the scan of the target directory adds to old_contributors
ScanPrior(dir) == UNION {Findall(f.text) : f \in PriorReports(dir)}

(***************************************************************************)
(* Rendering                                                               *)
(***************************************************************************)
\* the argument of one print call, as text
PrintText(line) ==
    CASE line.kind = "title" -> Txt_Title \o line.milestone
      [] line.kind = "intro" -> Txt_Intro1 \o line.milestone \o Txt_Intro2
      [] line.kind = "website" -> Txt_Website
      [] line.kind = "section" -> Txt_H2 \o line.section \o <<NL>>
      [] line.kind = "pull" ->
            Txt_Dash \o line.summary \o Txt_PullOpen \o line.repo \o Txt_Hash
                \o IntStr(line.number) \o Txt_LinkOpen \o GH \o Txt_Slash \o GH_USER
                \o Txt_Slash \o line.repo \o Txt_PullPath \o IntStr(line.number)
                \o Txt_PullClose
      [] line.kind = "blank" -> <<>>
      [] line.kind = "count" ->
            Txt_H2 \o IntStr(line.n) \o Txt_Space \o line.section_name \o Txt_Added
      [] line.kind = "contributor" ->
            Txt_DashBracket \o line.name \o Txt_LinkMid \o Txt_Https \o GH \o Txt_Slash
                \o GH_USER \o Txt_Slash \o GH_REPO \o Txt_Commits \o line.login \o Txt_At
                \o line.login
      [] line.kind = "new_heading" -> Txt_NewContributors
      [] line.kind = "new_count" -> Txt_ThereAre \o IntStr(line.n) \o Txt_NewFor

\* what the print calls lines[i..] put on the stream: each text and a newline
RECURSIVE StreamText(_, _)
StreamText(lines, i) ==
    IF i > Len(lines) THEN <<>> ELSE PrintText(lines[i]) \o <<NL>> \o StreamText(lines, i + 1)

Blank == [kind |-> "blank"]

\* the bullets of one section, in the insertion order of its dict
PullLines(pull_request_dicts) ==
    [i \in 1..Len(pull_request_dicts) |->
        [kind |-> "pull", summary |-> pull_request_dicts[i].value.summary,
         repo |-> pull_request_dicts[i].value.repo, number |-> pull_request_dicts[i].key]]

\* for section, pull_request_dicts in highlights.items(): ..., from its i-th item on
RECURSIVE SectionLines(_, _)
SectionLines(h, i) ==
    IF i > Len(h)
    THEN <<>>
    ELSE <<[kind |-> "section", section |-> h[i].key]>> \o PullLines(h[i].value)
            \o <<Blank>> \o SectionLines(h, i + 1)

\* sorted(contributor_set): the contributors in the order of their logins
Sorted_by_login(contributor_set, us) ==
    {order \in [1..Cardinality(contributor_set) -> contributor_set] :
        /\ \A c \in contributor_set : \E i \in DOMAIN order : order[i] = c
        /\ \A i, j \in DOMAIN order : i < j => ~StrLess(order[j], order[i])}

\* the orders sorted(contributor_set, key=lambda x: users[x].lower()) can return:
\* a set has no order of its own, so equal keys can come out either way
Sorted(contributor_set, us) ==
    {order \in [1..Cardinality(contributor_set) -> contributor_set] :
        /\ \A c \in contributor_set : \E i \in DOMAIN order : order[i] = c
        /\ \A i, j \in DOMAIN order :
              i < j => ~StrLess(Lower(DictGet(us, order[j])), Lower(DictGet(us, order[i])))}

\* the bullets of one contributor list
ContributorLines(list, order, us) ==
    [i \in 1..Len(order) |->
        [kind |-> "contributor", list |-> list, name |-> DictGet(us, order[i]),
         login |-> order[i]]]

Role_authors ==
    << "a", "u", "t", "h", "o", "r", "s" >>
Role_reviewers ==
    << "r", "e", "v", "i", "e", "w", "e", "r", "s" >>
Role_docs_authors ==
    << "d", "o", "c", "s", " ", "a", "u", "t", "h", "o", "r", "s" >>
Role_docs_reviewers ==
    << "d", "o", "c", "s", " ", "r", "e", "v", "i", "e", "w", "e", "r", "s" >>
Role_new ==
    << "n", "e", "w", " ", "c", "o", "n", "t", "r", "i", "b", "u", "t", "o", "r", "s" >>

\* one pass of the loop over contributors.items()
RoleLines(section_name, contributor_set, order, us) ==
    << Blank, [kind |-> "count", n |-> Cardinality(contributor_set \ {None}),
               section_name |-> section_name], Blank >>
        \o ContributorLines(section_name, order, us) \o <<Blank>>

\* the "New Contributors" section without the test of old_contributors
NewLines_unguarded(old, new_contributors, order, us) ==
    IF new_contributors # {}
    THEN << [kind |-> "new_heading"], Blank,
            [kind |-> "new_count", n |-> Cardinality(new_contributors)], Blank >>
            \o ContributorLines(Role_new, order, us)
    ELSE <<>>

\* the "New Contributors" section
NewLines(old, new_contributors, order, us) ==
    IF old # {} /\ new_contributors # {}
    THEN << [kind |-> "new_heading"], Blank,
            [kind |-> "new_count", n |-> Cardinality(new_contributors)], Blank >>
            \o ContributorLines(Role_new, order, us)
    ELSE <<>>

\* all the print calls of the script, given the sorted orders
ReportLines(old, a, r, da, dr, n) ==
    << [kind |-> "title", milestone |-> args.milestone],
       [kind |-> "intro", milestone |-> args.milestone],
       [kind |-> "website"] >>
        \o SectionLines(highlights, 1)
        \o RoleLines(Role_authors, authors, a, users)
        \o RoleLines(Role_reviewers, reviewers, r, users)
        \o RoleLines(Role_docs_authors, docs_authors, da, users)
        \o RoleLines(Role_docs_reviewers, docs_reviewers, dr, users)
        \o NewLines(old, (authors \cup docs_authors) \ old, n, users)

\* The output is opened, the prior reports of a target directory are scanned and
\* the release notes are printed; the process ends and the file is complete.
Report ==
    /\ pc = "report"
    /\ pc' = "done"
    /\ \E before \in IF args.target_directory = "None" THEN {{}} ELSE Directories :
        LET \* open(..., "w") creates the file or empties it
            opened == {f \in before : f.name # res_file_name}
                        \cup {[name |-> res_file_name, text |-> <<>>]}
            old == IF args.target_directory = "None" THEN {} ELSE ScanPrior(opened)
        IN  /\ old_contributors' = old
            /\ file_handle' = IF args.target_directory = "None" THEN "stdout" ELSE "file"
            /\ \E a \in Sorted(authors \ {None}, users),
                  r \in Sorted(reviewers \ {None}, users),
                  da \in Sorted(docs_authors \ {None}, users),
                  dr \in Sorted(docs_reviewers \ {None}, users),
                  n \in Sorted((authors \cup docs_authors) \ old, users) :
                    out' = ReportLines(old, a, r, da, dr, n)
            /\ directory' =
                    IF args.target_directory = "None"
                    THEN directory
                    ELSE {f \in opened : f.name # res_file_name}
                            \cup {[name |-> res_file_name, text |-> StreamText(out', 1)]}
    /\ UNCHANGED << args, users, authors, committers, docs_authors, docs_committers,
                    reviewers, docs_reviewers, highlights, other_pull_requests, pull,
                    yielded >>

Next ==
    \/ \E p \in MainPulls : MainPull(p)
    \/ MainEnd
    \/ \E p \in DocsPulls : DocsPull(p)
    \/ DocsEnd
    \/ Report

Spec == Init /\ [][Next]_vars

(***************************************************************************)
(* Properties                                                              *)
(***************************************************************************)
\* the ten sections of the report
SectionNames == DictKeys(EmptyHighlights) \cup {Sec_Other}

\* the pull-request dict of a section, before and after "Other Pull Requests"
\* joins highlights
SectionDict(s) == IF s = Sec_Other THEN other_pull_requests ELSE DictGet(highlights, s)

\* the sections that hold an entry of repository `repo` under `number`
SectionsOf(repo, number) ==
    {s \in SectionNames :
        DictHas(SectionDict(s), number) /\ DictGet(SectionDict(s), number).repo = repo}

\* the lower-cased label names of the pull request of the current iteration
LoweredLabels == {Lower(l) : l \in pull.labels}

\* the positions of the bullets of one contributor list in the output
Bullets(list) ==
    {i \in 1..Len(out) : out[i].kind = "contributor" /\ out[i].list = list}

RoleLists == {Role_authors, Role_reviewers, Role_docs_authors, Role_docs_reviewers}

\* the "New Contributors" heading was printed
NewSectionWritten == \E i \in 1..Len(out) : out[i].kind = "new_heading"

\* a napari pull request has just been classified
MainClassified == pc = "main" /\ pull # NoPull

\* a docs pull request has just been classified
DocsClassified == pc = "docs" /\ yielded.docs # {}

\* C1: a napari pull request is in the section of the first key of
\* label_to_section among its lower-cased labels, or in "Other Pull Requests"
\* when it has none, and in that section only.
C1_FirstMatchingKey ==
    MainClassified =>
        LET matching == {i \in 1..Len(label_to_section) :
                            label_to_section[i].key \in LoweredLabels}
            first == CHOOSE i \in matching : \A j \in matching : i <= j
            expected == IF matching = {} THEN Sec_Other ELSE label_to_section[first].value
        IN  SectionsOf(Repo_napari, pull.number) = {expected}

\* C2: once both repositories are processed, every processed pull request has
\* its entry in at most one of the ten sections.
C2_AtMostOneSection ==
    pc \in {"report", "done"} =>
        /\ \A q \in yielded.napari : Cardinality(SectionsOf(Repo_napari, q.number)) <= 1
        /\ \A q \in yielded.docs : Cardinality(SectionsOf(Repo_docs, q.number)) <= 1

\* C3: no login of BOT_LIST is a bullet of the authors, reviewers, docs authors
\* or docs reviewers list of the report.
C3_NoBotBullets ==
    pc = "done" =>
        \A list \in RoleLists : \A i \in Bullets(list) : out[i].login \notin BOT_LIST

\* C4 as claimed: the "New Contributors" section is written exactly when the
\* output goes to a file and the target directory held a prior report.
C4_NewSectionIffPriorReport ==
    pc = "done" =>
        (NewSectionWritten <=>
            args.target_directory # "None" /\ PriorReports(directory) # {})

\* a login follows an "@" somewhere in a text: the text has the login right
\* after an "@", and no login character right after that
Mentions(text, login) ==
    \E i \in 1..Len(text) :
        /\ text[i] = "@"
        /\ i + Len(login) <= Len(text)
        /\ SubSeq(text, i + 1, i + Len(login)) = login
        /\ i + Len(login) = Len(text) \/ ~IsLoginChar(text[i + Len(login) + 1])

\* C4 amended: the "New Contributors" section is written exactly when the
\* output goes to a file, some prior report of the target directory mentions
\* an @login, and some author or docs author left after the bot removal is
\* mentioned in no prior report.
C4_NewSectionIffNewAmongOld ==
    pc = "done" =>
        (NewSectionWritten <=>
            /\ args.target_directory # "None"
            /\ \E f \in PriorReports(directory) :
                    \E i \in 1..(Len(f.text) - 1) :
                        f.text[i] = "@" /\ IsLoginChar(f.text[i + 1])
            /\ \E c \in authors \cup docs_authors :
                    \A f \in PriorReports(directory) : ~Mentions(f.text, c))

C4_Witness ==
    /\ pc = "done"
    /\ NewSectionWritten
    /\ \E f \in PriorReports(directory) : Mentions(f.text, Login_a)
    /\ Login_b \in authors \cup docs_authors

\* C5: an add_to_users call never changes or removes the name of a login that
\* is already in users: every entry of users stays as it was first resolved.
C5_ResolvedOnce ==
    [][\A i \in 1..Len(users) : i <= Len(users') /\ users'[i] = users[i]]_vars

\* login a was resolved from a user named "bob", and add_to_users was called
\* again for login a with a review user that has no name
C5_Witness ==
    /\ DictHas(users, Login_a)
    /\ DictGet(users, Login_a) = Name_bob
    /\ Login_a \in reviewers

\* C6: a pull request that is not merged ends the run where it is found:
\* nothing is recorded for it, the output is never opened or written, and no
\* step follows.
C6_UnmergedAborts ==
    [][/\ (pull' # NoPull /\ ~pull'.merged) =>
            /\ pc' = "failed"
            /\ file_handle' = "closed"
            /\ out' = <<>>
            /\ UNCHANGED << users, authors, committers, docs_authors, docs_committers,
                            reviewers, docs_reviewers, highlights, other_pull_requests,
                            old_contributors, directory >>
       /\ pc = "failed" => UNCHANGED vars]_vars

\* a docs pull request that is not merged came after a napari pull request
C6_Witness ==
    /\ pc = "failed"
    /\ ~pull.merged
    /\ yielded.napari # {}
    /\ pull \in yielded.docs

\* C7: the bullets of every contributor list are in non-decreasing order of the
\* lower-cased display name; login b named "Alice" comes before login a named
\* "bob".
C7_SortedByName ==
    pc = "done" =>
        \A list \in RoleLists \cup {Role_new} :
            \A i, j \in Bullets(list) :
                /\ i < j => ~StrLess(Lower(DictGet(users, out[j].login)),
                                     Lower(DictGet(users, out[i].login)))
                /\ (out[i].name = Name_Alice /\ out[j].name = Name_bob) => i < j

C7_Witness ==
    /\ pc = "done"
    /\ \E list \in RoleLists \cup {Role_new} :
            \E i, j \in Bullets(list) :
                /\ i < j
                /\ out[i].login = Login_b /\ out[i].name = Name_Alice
                /\ out[j].login = Login_a /\ out[j].name = Name_bob

\* the text of the file written by this run
WrittenText == (CHOOSE f \in directory : f.name = res_file_name).text

\* C8: scanning the written file with @([\w-]+) gives exactly the logins of
\* the contributor bullets.
C8_ScanRecoversBullets ==
    (pc = "done" /\ file_handle = "file") =>
        Findall(WrittenText) =
            {out[i].login : i \in {j \in 1..Len(out) : out[j].kind = "contributor"}}

\* C9: a docs pull request is in "Other Pull Requests" when its lower-cased
\* labels contain "maintenance" and in "Documentation" otherwise, in that
\* section only, with repo label "docs" and its title as summary.
C9_DocsClassification ==
    DocsClassified =>
        LET expected == IF Key_maintenance \in LoweredLabels
                        THEN Sec_Other ELSE Sec_Documentation
        IN  /\ SectionsOf(Repo_docs, pull.number) = {expected}
            /\ DictGet(SectionDict(expected), pull.number) =
                    [summary |-> pull.title, repo |-> Repo_docs]

\* a docs pull request labelled "Maintenance" and "bug" is in "Other Pull
\* Requests"
C9_Witness ==
    /\ DocsClassified
    /\ pull.labels = {Label_Maintenance, Key_bug}
    /\ SectionsOf(Repo_docs, pull.number) = {Sec_Other}

\* some section holds the entry of pull request q of repository `repo`
HasOwnEntry(repo, q) ==
    \E s \in SectionNames :
        /\ DictHas(SectionDict(s), q.number)
        /\ DictGet(SectionDict(s), q.number) = [summary |-> q.title, repo |-> repo]

\* C10: once both repositories are processed, every processed pull request has
\* its own entry (its number, title and repo label) in some section.
C10_NoPullLost ==
    pc \in {"report", "done"} =>
        /\ \A q \in yielded.napari : HasOwnEntry(Repo_napari, q)
        /\ \A q \in yielded.docs : HasOwnEntry(Repo_docs, q)

====
